---------------------------- MODULE Spec2Model ----------------------------
(***************************************************************************)
(* A model of src/parse_sequel_runs.py (class SequelRunParser): the file   *)
(* classifier find_xml_files, the three extractors parse_consensusreadset, *)
(* parse_subreadset and parse_sts_file, and the reconciling batch loop     *)
(* parse_all_runs.                                                         *)
(*                                                                         *)
(* Conventions.                                                            *)
(*  - A Python string that the code takes apart or uses as a run key (a    *)
(*    path, a file name, a Context attribute) is the sequence of its       *)
(*    characters; any other string is an atom.                             *)
(*  - None is <<>> and any other value v is <<v>> (None / Some).           *)
(*  - A dict is a function from its keys to None/Some values; a key that   *)
(*    was never set is outside DOMAIN.                                     *)
(*  - The text of an XML element is [ok, v]: ok says whether int()/float() *)
(*    accept it, v is the number it denotes.  Decimal texts (SampleMean,   *)
(*    and so on) carry v in thousandths.  Counts are non-negative.         *)
(*  - A float that the code rounds to 2 decimals is kept as an integer     *)
(*    number of hundredths.                                                *)
(***************************************************************************)
EXTENDS Integers, Sequences, FiniteSets, TLC

VARIABLES
    base_dir,         \* SequelRunParser.base_dir, as str() prints it
    fs,               \* what rglob yields: [consensus, subread, sts], lists of files
    consensus_files,  \* the three lists find_xml_files returns
    subread_files,
    sts_files,
    run_data,         \* the insertion-ordered dict of parse_all_runs
    all_data,         \* list(run_data.values()), the rows of the DataFrame
    pc,               \* position in parse_all_runs, or the mode of a single call
    ci, si, ti,       \* next index of the three for loops
    errors,           \* number of "Error parsing" lines printed
    arg,              \* the argument of a single extractor call
    ret               \* what that call returned or raised

vars == <<base_dir, fs, consensus_files, subread_files, sts_files, run_data,
          all_data, pc, ci, si, ti, errors, arg, ret>>

--------------------------------------------------------------------------
(* None / Some *)

None == <<>>

Some(v) == <<v>>

IsSome(o) == o # None

Val(o) == o[1]

(* Python truthiness of an optional integer: None and 0 are falsy. *)
Truthy(o) == IsSome(o) /\ Val(o) # 0

(* dict.update: the keys of new overwrite, the others are kept. *)
DictUpdate(old, new) == new @@ old

Range(s) == {s[i] : i \in 1..Len(s)}

--------------------------------------------------------------------------
(* Strings as character sequences *)

Contains(s, sub) ==
    \E i \in 0..(Len(s) - Len(sub)) : SubSeq(s, i + 1, i + Len(sub)) = sub

UpperChars == <<"A","B","C","D","E","F","G","H","I","J","K","L","M",
                "N","O","P","Q","R","S","T","U","V","W","X","Y","Z">>

LowerChars == <<"a","b","c","d","e","f","g","h","i","j","k","l","m",
                "n","o","p","q","r","s","t","u","v","w","x","y","z">>

LowerChar(c) ==
    IF \E i \in 1..Len(UpperChars) : UpperChars[i] = c
    THEN LowerChars[CHOOSE i \in 1..Len(UpperChars) : UpperChars[i] = c]
    ELSE c

(* str.lower() *)
Lower(s) == [i \in 1..Len(s) |-> LowerChar(s[i])]

(* Index of the last / first occurrence of character c in s, 0 when none. *)
LastIndexOf(s, c) ==
    IF \E i \in 1..Len(s) : s[i] = c
    THEN CHOOSE i \in 1..Len(s) : s[i] = c /\ \A j \in (i + 1)..Len(s) : s[j] # c
    ELSE 0

FirstIndexOf(s, c) ==
    IF \E i \in 1..Len(s) : s[i] = c
    THEN CHOOSE i \in 1..Len(s) : s[i] = c /\ \A j \in 1..(i - 1) : s[j] # c
    ELSE 0

(* PurePath.name: the last component of the path. *)
PathName(p) == SubSeq(p, LastIndexOf(p, "/") + 1, Len(p))

(* str(PurePath.parent): everything before the last "/", "." when there   *)
(* is none and "/" for a file in the root directory.                       *)
PathParent(p) ==
    IF LastIndexOf(p, "/") = 0 THEN <<".">>
    ELSE IF LastIndexOf(p, "/") = 1 THEN <<"/">>
    ELSE SubSeq(p, 1, LastIndexOf(p, "/") - 1)

(* PurePath.stem: the name without its last suffix; a name whose only dot  *)
(* is leading or trailing has no suffix.                                   *)
PathStem(p) ==
    LET name == PathName(p)
        i == LastIndexOf(name, ".")
    IN  IF 1 < i /\ i < Len(name) THEN SubSeq(name, 1, i - 1) ELSE name

(* s.split('.')[0] *)
SplitDotFirst(s) ==
    IF FirstIndexOf(s, ".") = 0 THEN s
    ELSE SubSeq(s, 1, FirstIndexOf(s, ".") - 1)

--------------------------------------------------------------------------
(* round(x, 2) of a Python float.                                          *)
(*                                                                         *)
(* Every rounded quantity of the program is x = t / (100 * den) for        *)
(* integers t >= 0, den > 0, where the float x is the correctly rounded    *)
(* double of that rational (a float division, or float() of a decimal      *)
(* text).  round(x, 2) rounds the exact binary value of x correctly, so    *)
(* its result in hundredths is the integer nearest to t / den, except when *)
(* t / den lies exactly half way between two integers: then the double     *)
(* nearest to x = n / 200 (n odd) decides, and round-half-even applies     *)
(* only when n / 200 is itself a double (25 divides n).                    *)

RECURSIVE Pow2Mod25(_)
Pow2Mod25(j) == IF j = 0 THEN 1 ELSE (2 * Pow2Mod25(j - 1)) % 25

(* The largest k, possibly negative, with 200 * 2^k <= n (n >= 1): the     *)
(* binary exponent of n / 200.                                             *)
RECURSIVE Exp200(_, _)
Exp200(n, d) ==
    IF n >= 2 * d THEN 1 + Exp200(n, 2 * d)
    ELSE IF n < d THEN Exp200(2 * n, d) - 1
    ELSE 0

(* Whether round(n / 200, 2), n odd, goes up to (n + 1) / 200.  The 53-bit *)
(* significand of n / 200 is n * 2^e / 200 rounded, e = 52 - Exp200; its   *)
(* remainder modulo 200 is 8 * ((n * 2^(e - 3)) mod 25).                   *)
HalfwayGoesUp(n) ==
    LET rem == 8 * ((n * Pow2Mod25(49 - Exp200(n, 200))) % 25)
    IN  IF rem = 0 THEN ((n - 1) \div 2) % 2 = 1
        ELSE rem > 100

RoundDown2(t, den) == t \div den

(* round(t / (100 * den), 2), in hundredths *)
Round2(t, den) ==
    LET q == t \div den
        r == t % den
    IN  IF 2 * r < den THEN q
        ELSE IF 2 * r > den THEN q + 1
        ELSE IF HalfwayGoesUp(2 * q + 1) THEN q + 1 ELSE q

--------------------------------------------------------------------------
(* Element texts *)

Txt(v) == [ok |-> TRUE, v |-> v]

BadTxt == [ok |-> FALSE, v |-> 0]

(* int(elem.text) / float(elem.text) raise ValueError or TypeError exactly *)
(* when the element is there and its text is not a number.                 *)
ConvRaises(o) == IsSome(o) /\ ~Val(o).ok

(* int(e.text) if e is not None else None *)
IntOrNone(o) == IF IsSome(o) THEN Some(Val(o).v) ELSE None

(* int(float(e.text)) if e is not None else None, text in thousandths *)
TruncOrNone(o) == IF IsSome(o) THEN Some(Val(o).v \div 1000) ELSE None


EmptyDict == [k \in {} |-> None]

--------------------------------------------------------------------------
(* parse_sts_file.  A stats document is a record                           *)
(*   wf                 ET.parse accepts the file                          *)
(*   NumSequencingZmws, MovieLength, SequencingUmy                         *)
(*                      None, or the text of the first child of the root   *)
(*                      with that local tag                                *)
(*   LoadingDist, ProdDist                                                 *)
(*                      None, or the texts of the BinCount elements below  *)
(*                      the first such child, in document order            *)
(*   ReadLenDist        None, or [SampleMean, SampleMed, SampleN50], each  *)
(*                      None or a text                                     *)
(*   HqRegionSnrDist    the HqRegionSnrDist elements in document order,    *)
(*                      each [Channel, SampleMean]                         *)
(* and a file is [path, doc].                                              *)

(* data['yield_gb'] = round(data['total_bases'] / 1e9, 2) if ... else None *)
YieldNonNone_mut(total_bases) ==
    IF IsSome(total_bases) THEN Some(Round2(Val(total_bases), 10000000)) ELSE None

YieldFloor_mut(total_bases) ==
    IF Truthy(total_bases) THEN Some(RoundDown2(Val(total_bases), 10000000)) ELSE None

YieldGb(total_bases) ==
    IF Truthy(total_bases) THEN Some(Round2(Val(total_bases), 10000000)) ELSE None

(* round(100 * count / num_sequencing_zmws, 2) *)
Percent(count, zmws) == Some(Round2(10000 * count, zmws))

LoadingPercents_mut(b, zmws) ==
    IF Truthy(zmws)
    THEN ("p0_percent" :> Percent(b[1].v, Val(zmws)))
         @@ ("p1_percent" :> Percent(b[2].v, Val(zmws)))
         @@ ("p2_percent" :> Percent(b[3].v, Val(zmws)))
    ELSE ("p0_percent" :> None) @@ ("p1_percent" :> None) @@ ("p2_percent" :> None)

(* if data['num_sequencing_zmws']: the three loading percentages *)
LoadingPercents(b, zmws) ==
    IF Truthy(zmws)
    THEN ("p0_percent" :> Percent(b[1].v, Val(zmws)))
         @@ ("p1_percent" :> Percent(b[2].v, Val(zmws)))
         @@ ("p2_percent" :> Percent(b[3].v, Val(zmws)))
    ELSE EmptyDict

(* P0, P1, P2 from LoadingDist *)
LoadingFields(doc, zmws) ==
    IF IsSome(doc.LoadingDist) /\ Len(Val(doc.LoadingDist)) >= 3
    THEN LET b == Val(doc.LoadingDist)
         IN  ("p0_empty" :> Some(b[1].v)) @@ ("p1_single" :> Some(b[2].v))
             @@ ("p2_multi" :> Some(b[3].v)) @@ LoadingPercents(b, zmws)
    ELSE EmptyDict

(* Productivity: index 1 of the ProdDist bins *)
ProdFields(doc, zmws) ==
    IF IsSome(doc.ProdDist) /\ Len(Val(doc.ProdDist)) >= 2
    THEN LET b == Val(doc.ProdDist)
         IN  ("productive_zmws" :> Some(b[2].v))
             @@ (IF Truthy(zmws)
                 THEN "productivity_percent" :> Percent(b[2].v, Val(zmws))
                 ELSE EmptyDict)
    ELSE EmptyDict

(* Read length statistics *)
ReadLenFields(doc) ==
    IF IsSome(doc.ReadLenDist)
    THEN LET r == Val(doc.ReadLenDist)
         IN  ("mean_read_length" :> TruncOrNone(r.SampleMean))
             @@ ("median_read_length" :> TruncOrNone(r.SampleMed))
             @@ ("n50_read_length" :> TruncOrNone(r.SampleN50))
    ELSE EmptyDict

Channels == <<"A", "C", "G", "T">>

SnrField(ch) ==
    CASE ch = "A" -> "snr_a" [] ch = "C" -> "snr_c"
      [] ch = "G" -> "snr_g" [] ch = "T" -> "snr_t"

(* The first HqRegionSnrDist whose Channel attribute is ch, 0 when none:   *)
(* the loop breaks at it whether or not it has a SampleMean.               *)
FirstWithChannel(snrs, ch) ==
    IF \E i \in 1..Len(snrs) : snrs[i].Channel = Some(ch)
    THEN CHOOSE i \in 1..Len(snrs) :
            /\ snrs[i].Channel = Some(ch)
            /\ \A j \in 1..(i - 1) : snrs[j].Channel # Some(ch)
    ELSE 0

(* The SampleMean the SNR loop reads for channel ch, None when it reads none. *)
SnrMean(doc, ch) ==
    LET i == FirstWithChannel(doc.HqRegionSnrDist, ch)
    IN  IF i = 0 THEN None ELSE doc.HqRegionSnrDist[i].SampleMean

RECURSIVE SnrFields(_, _)
SnrFields(doc, n) ==
    IF n = 0 THEN EmptyDict
    ELSE LET m == SnrMean(doc, Channels[n])
         IN  (IF IsSome(m)
              THEN SnrField(Channels[n]) :> Some(Round2(Val(m).v, 10))
              ELSE EmptyDict)
             @@ SnrFields(doc, n - 1)

(* Whether parse_sts_file raises on the document: ET.parse fails, or one   *)
(* of the conversions the code reaches is given a text that is no number.  *)
StsRaises(doc) ==
    \/ ~doc.wf
    \/ ConvRaises(doc.NumSequencingZmws)
    \/ ConvRaises(doc.MovieLength)
    \/ ConvRaises(doc.SequencingUmy)
    \/ /\ IsSome(doc.LoadingDist)
       /\ Len(Val(doc.LoadingDist)) >= 3
       /\ \E i \in 1..3 : ~Val(doc.LoadingDist)[i].ok
    \/ /\ IsSome(doc.ProdDist)
       /\ Len(Val(doc.ProdDist)) >= 2
       /\ ~Val(doc.ProdDist)[2].ok
    \/ /\ IsSome(doc.ReadLenDist)
       /\ \/ ConvRaises(Val(doc.ReadLenDist).SampleMean)
          \/ ConvRaises(Val(doc.ReadLenDist).SampleMed)
          \/ ConvRaises(Val(doc.ReadLenDist).SampleN50)
    \/ \E n \in 1..Len(Channels) : ConvRaises(SnrMean(doc, Channels[n]))

(* The dict parse_sts_file returns when it does not raise. *)
StsData(f) ==
    LET doc == f.doc
        zmws == IntOrNone(doc.NumSequencingZmws)
        total_bases == IntOrNone(doc.SequencingUmy)
    IN  ("sts_file" :> Some(PathName(f.path)))
        @@ ("num_sequencing_zmws" :> zmws)
        @@ ("actual_movie_length_min" :> IntOrNone(doc.MovieLength))
        @@ ("total_bases" :> total_bases)
        @@ ("yield_gb" :> YieldGb(total_bases))
        @@ LoadingFields(doc, zmws)
        @@ ProdFields(doc, zmws)
        @@ ReadLenFields(doc)
        @@ SnrFields(doc, Len(Channels))

Raised == [raised |-> TRUE, data |-> EmptyDict]

Returned(d) == [raised |-> FALSE, data |-> d]

parse_sts_file(f) == IF StsRaises(f.doc) THEN Raised ELSE Returned(StsData(f))

--------------------------------------------------------------------------
(* parse_consensusreadset and parse_subreadset.  A dataset document is     *)
(*   wf                   ET.parse accepts the file                        *)
(*   TotalLength, NumRecords                                               *)
(*                        None, or the text of the first such element      *)
(*   CollectionMetadata   None, or its attributes [InstrumentId,           *)
(*                        InstrumentName, Context, CreatedAt]              *)
(*   RunDetails           None, or [Name]: the text of its Name child      *)
(*   WellSample           None, or [Name (attribute), WellName,            *)
(*                        InsertSize, OnPlateLoadingConcentration,         *)
(*                        Application (children)]                          *)
(*   Automation           None, or its AutomationParameter elements in     *)
(*                        document order, each [Name, SimpleValue]         *)
(*   BindingKit           None, or [Name, PartNumber]                      *)
(*   CellPac              None, or [Name]                                  *)
(* every attribute and child being None when absent.                       *)

BasicFields(doc) ==
    (IF IsSome(doc.TotalLength)
     THEN "total_length" :> Some(Val(doc.TotalLength).v) ELSE EmptyDict)
    @@ (IF IsSome(doc.NumRecords)
        THEN "num_records" :> Some(Val(doc.NumRecords).v) ELSE EmptyDict)

(* Collection metadata: collection.get(...) is None for a missing attribute *)
CollectionFields(doc) ==
    IF IsSome(doc.CollectionMetadata)
    THEN LET c == Val(doc.CollectionMetadata)
         IN  ("instrument_id" :> c.InstrumentId)
             @@ ("instrument_name" :> c.InstrumentName)
             @@ ("context" :> c.Context)
             @@ ("created_at" :> c.CreatedAt)
    ELSE EmptyDict

RunDetailsFields(doc) ==
    IF IsSome(doc.RunDetails)
    THEN "run_name" :> Val(doc.RunDetails).Name
    ELSE EmptyDict

(* Well sample info shared by the two extractors *)
WellFields(doc) ==
    IF IsSome(doc.WellSample)
    THEN LET w == Val(doc.WellSample)
         IN  ("sample_name" :> w.Name)
             @@ ("well_name" :> w.WellName)
             @@ ("insert_size" :> IntOrNone(w.InsertSize))
             @@ ("loading_concentration" :> IntOrNone(w.OnPlateLoadingConcentration))
    ELSE EmptyDict

(* data['application'], which only parse_consensusreadset extracts *)
ApplicationField(doc) ==
    IF IsSome(doc.WellSample)
    THEN "application" :> Val(doc.WellSample).Application
    ELSE EmptyDict

(* The automation parameters named pname, in document order. *)
ParamsNamed(doc, pname) ==
    IF IsSome(doc.Automation)
    THEN SelectSeq(Val(doc.Automation), LAMBDA p : p.Name = Some(pname))
    ELSE <<>>

(* Each matching parameter assigns the key, so the last one stays. *)
ParamField(doc, pname, key) ==
    LET ps == ParamsNamed(doc, pname)
    IN  IF ps = <<>> THEN EmptyDict
        ELSE key :> Some(Val(ps[Len(ps)].SimpleValue).v)

AutomationFields(doc) ==
    ParamField(doc, "MovieLength", "movie_length_min")
    @@ ParamField(doc, "InsertSize", "target_insert_size")

(* float(param_value) / int(param_value) raise on None (no SimpleValue     *)
(* attribute) as on a text that is no number.                              *)
ParamRaises(doc, pname) ==
    \E i \in 1..Len(ParamsNamed(doc, pname)) :
        LET v == ParamsNamed(doc, pname)[i].SimpleValue
        IN  ~IsSome(v) \/ ~Val(v).ok

KitFields(doc) ==
    (IF IsSome(doc.BindingKit)
     THEN ("binding_kit" :> Val(doc.BindingKit).Name)
          @@ ("binding_kit_part" :> Val(doc.BindingKit).PartNumber)
     ELSE EmptyDict)
    @@ (IF IsSome(doc.CellPac)
        THEN "cell_type" :> Val(doc.CellPac).Name ELSE EmptyDict)

DatasetRaises(doc) ==
    \/ ~doc.wf
    \/ ConvRaises(doc.TotalLength)
    \/ ConvRaises(doc.NumRecords)
    \/ /\ IsSome(doc.WellSample)
       /\ \/ ConvRaises(Val(doc.WellSample).InsertSize)
          \/ ConvRaises(Val(doc.WellSample).OnPlateLoadingConcentration)
    \/ ParamRaises(doc, "MovieLength")
    \/ ParamRaises(doc, "InsertSize")

SubreadData(f) ==
    ("xml_file" :> Some(PathName(f.path)))
    @@ ("run_path" :> Some(PathParent(f.path)))
    @@ BasicFields(f.doc)
    @@ CollectionFields(f.doc)
    @@ RunDetailsFields(f.doc)
    @@ WellFields(f.doc)
    @@ AutomationFields(f.doc)
    @@ KitFields(f.doc)

ConsensusData(f) == SubreadData(f) @@ ApplicationField(f.doc)

parse_consensusreadset(f) ==
    IF DatasetRaises(f.doc) THEN Raised ELSE Returned(ConsensusData(f))

parse_subreadset(f) ==
    IF DatasetRaises(f.doc) THEN Raised ELSE Returned(SubreadData(f))

--------------------------------------------------------------------------
(* find_xml_files *)

SfxConsensus == <<".","c","o","n","s","e","n","s","u","s","r","e","a","d","s","e","t",".","x","m","l">>

SfxSubread == <<".","s","u","b","r","e","a","d","s","e","t",".","x","m","l">>

SfxSts == <<".","s","t","s",".","x","m","l">>

(* str() of a path rglob yields for the file at rel below base: pathlib    *)
(* prints nothing for the directory "." and no second slash after "/".     *)
FullPath(base, rel) ==
    IF base = <<".">> THEN rel
    ELSE IF base = <<"/">> THEN base \o rel
    ELSE base \o <<"/">> \o rel

(* is_main_file: not in a barcode subdirectory, no barcode pattern in the  *)
(* file name, not an "unbarcoded" file.                                    *)
is_main_file(path_str) ==
    LET filename == PathName(path_str)
    IN  /\ ~(/\ Contains(path_str, <<"/","b","c">>)
             /\ Contains(path_str, <<"-","-","b","c">>))
        /\ ~(/\ Contains(filename, <<".","b","c">>)
             /\ Contains(filename, <<"-","-","b","c">>))
        /\ ~Contains(Lower(filename), <<"u","n","b","a","r","c","o","d","e","d">>)

MainFiles(files) == SelectSeq(files, LAMBDA f : is_main_file(f.path))

--------------------------------------------------------------------------
(* parse_all_runs.  run_data is the list of its entries [key, rec] in      *)
(* insertion order, as a Python dict keeps them.                           *)

Keys(rd) == [i \in 1..Len(rd) |-> rd[i].key]

HasKey(rd, k) == \E i \in 1..Len(rd) : rd[i].key = k

KeyIndex(rd, k) == CHOOSE i \in 1..Len(rd) : rd[i].key = k

Get(rd, k) == rd[KeyIndex(rd, k)].rec

(* data.get('context', file.stem): the default is used only when the key   *)
(* 'context' is not in data.                                               *)
DatasetKey(data, f) ==
    IF "context" \in DOMAIN data THEN data["context"] ELSE Some(PathStem(f.path))

StsKeyStem_mut(f) == Some(PathStem(f.path))

(* sts_file.stem.split('.')[0] *)
StsKey(f) == Some(SplitDotFirst(PathStem(f.path)))

TagConsensus(data) == ("run_type" :> Some("CCS/HiFi")) @@ data

TagSubread(data) == ("run_type" :> Some("CLR")) @@ data

MergeDatasetReinsert_mut(rd, k, data) ==
    IF HasKey(rd, k)
    THEN Append(SelectSeq(rd, LAMBDA e : e.key # k),
                [key |-> k, rec |-> DictUpdate(Get(rd, k), data)])
    ELSE Append(rd, [key |-> k, rec |-> data])

MergeDatasetAssign_mut(rd, k, data) ==
    IF HasKey(rd, k)
    THEN [rd EXCEPT ![KeyIndex(rd, k)].rec = data]
    ELSE Append(rd, [key |-> k, rec |-> data])

(* if context not in run_data: run_data[context] = {}                      *)
(* run_data[context].update(data)                                          *)
MergeDataset(rd, k, data) ==
    IF HasKey(rd, k)
    THEN [rd EXCEPT ![KeyIndex(rd, k)].rec = DictUpdate(@, data)]
    ELSE Append(rd, [key |-> k, rec |-> DictUpdate(EmptyDict, data)])

MergeStsAssign_mut(rd, k, data) ==
    IF HasKey(rd, k)
    THEN [rd EXCEPT ![KeyIndex(rd, k)].rec = data]
    ELSE Append(rd, [key |-> k, rec |-> data])

(* if context in run_data: run_data[context].update(data)                  *)
(* else: run_data[context] = data                                          *)
MergeSts(rd, k, data) ==
    IF HasKey(rd, k)
    THEN [rd EXCEPT ![KeyIndex(rd, k)].rec = DictUpdate(@, data)]
    ELSE Append(rd, [key |-> k, rec |-> data])

OnParseErrorEmptyEntry_mut(rd, f) ==
    IF HasKey(rd, Some(PathStem(f.path))) THEN rd
    ELSE Append(rd, [key |-> Some(PathStem(f.path)), rec |-> EmptyDict])

(* except Exception as e: print(...) -- run_data is not touched *)
OnParseError(rd, f) == rd

--------------------------------------------------------------------------
(* Inputs: bounded sets of documents and of directory trees *)

MaxFiles == 3        \* files found below base_dir in one batch, all kinds together

MaxZmws == 32        \* largest NumSequencingZmws of a document

MaxYieldStep == 50   \* SequencingUmy ranges to MaxYieldStep quarter-hundredths of a Gb

StsDoc(wf, z, m, u, l, p, r, h) ==
    [wf |-> wf, NumSequencingZmws |-> z, MovieLength |-> m, SequencingUmy |-> u,
     LoadingDist |-> l, ProdDist |-> p, ReadLenDist |-> r, HqRegionSnrDist |-> h]

ZmwOpts == {None, Some(BadTxt), Some(Txt(0)), Some(Txt(3)), Some(Txt(MaxZmws))}

UmyOpts == {None, Some(Txt(0)), Some(Txt(15000000))}

(* Total base counts around every multiple of a quarter of 10^7 *)
UmyValues ==
    {0, 1, 1005000000, 2135000000}
    \cup {k * 2500000 + d : k \in 1..MaxYieldStep, d \in {-1, 0, 1}}

LoadingOpts ==
    { None,
      Some(<<Txt(1), Txt(2)>>),
      Some(<<Txt(8), Txt(20), Txt(4)>>),
      Some(<<Txt(8), BadTxt, Txt(4)>>),
      Some(<<Txt(1), Txt(0), Txt(2), BadTxt>>) }

ProdOpts ==
    { None, Some(<<Txt(2)>>), Some(<<Txt(2), Txt(30)>>), Some(<<BadTxt, Txt(1)>>),
      Some(<<Txt(2), BadTxt>>) }

ReadLenOpts ==
    { None,
      Some([SampleMean |-> None, SampleMed |-> Some(Txt(1234560)), SampleN50 |-> None]),
      Some([SampleMean |-> Some(Txt(999999)), SampleMed |-> Some(Txt(1000)),
            SampleN50 |-> Some(BadTxt)]) }

SnrOpts ==
    { <<>>,
      <<[Channel |-> Some("A"), SampleMean |-> Some(Txt(7125))],
        [Channel |-> Some("T"), SampleMean |-> Some(Txt(7135))]>>,
      <<[Channel |-> Some("C"), SampleMean |-> None],
        [Channel |-> Some("C"), SampleMean |-> Some(Txt(5000))],
        [Channel |-> None, SampleMean |-> Some(BadTxt)]>>,
      <<[Channel |-> Some("G"), SampleMean |-> Some(BadTxt)]>> }

StsPath == <<"m","1",".","s","t","s",".","x","m","l">>

StructStsDocs ==
    { StsDoc(wf, z, None, u, l, p, r, h) :
        wf \in BOOLEAN, z \in ZmwOpts, u \in UmyOpts, l \in LoadingOpts,
        p \in ProdOpts, r \in ReadLenOpts, h \in SnrOpts }

YieldStsDocs ==
    { StsDoc(TRUE, Some(Txt(MaxZmws)), m, Some(Txt(b)), None, None, None, <<>>) :
        m \in {None, Some(Txt(30)), Some(BadTxt)}, b \in UmyValues }

StsDocs == StructStsDocs \cup YieldStsDocs

DsDoc(wf, t, n, c, r, w, a, b, k) ==
    [wf |-> wf, TotalLength |-> t, NumRecords |-> n, CollectionMetadata |-> c,
     RunDetails |-> r, WellSample |-> w, Automation |-> a, BindingKit |-> b,
     CellPac |-> k]

Collection(ctx) ==
    Some([InstrumentId |-> Some("64241e"), InstrumentName |-> None,
          Context |-> ctx, CreatedAt |-> Some("2025-10-15")])

Ctx_m1 == Some(<<"m","1">>)

TxtOpts == {None, Some(Txt(5)), Some(BadTxt)}

CollectionOpts == {None, Collection(None), Collection(Ctx_m1)}

RunDetailsOpts == {None, Some([Name |-> None]), Some([Name |-> Some("r1")])}

Well(name, wn, ins, conc, app) ==
    Some([Name |-> name, WellName |-> wn, InsertSize |-> ins,
          OnPlateLoadingConcentration |-> conc, Application |-> app])

WellOpts ==
    { None,
      Well(None, None, None, None, None),
      Well(Some("s1"), Some("A01"), Some(Txt(15000)), Some(Txt(80)), Some("hifi")),
      Well(Some("s1"), None, Some(BadTxt), None, None) }

Param(name, v) == [Name |-> name, SimpleValue |-> v]

AutomationOpts ==
    { None,
      Some(<<>>),
      Some(<<Param(Some("MovieLength"), Some(Txt(1800000)))>>),
      Some(<<Param(Some("MovieLength"), Some(Txt(900000))),
             Param(Some("InsertSize"), Some(Txt(10000))),
             Param(Some("MovieLength"), Some(Txt(1440000)))>>),
      Some(<<Param(Some("MovieLength"), None)>>),
      Some(<<Param(Some("InsertSize"), None)>>),
      Some(<<Param(Some("Exposure"), None), Param(None, None)>>),
      Some(<<Param(Some("InsertSize"), Some(BadTxt))>>) }

KitOpts == {None, Some([Name |-> Some("kit"), PartNumber |-> None])}

CellOpts == {None, Some([Name |-> Some("SMRT Cell 8M")])}

DsDocs ==
    { DsDoc(wf, t, None, c, r, w, a, b, k) :
        wf \in BOOLEAN, t \in TxtOpts, c \in CollectionOpts, r \in RunDetailsOpts,
        w \in WellOpts, a \in AutomationOpts, b \in KitOpts, k \in CellOpts }

DsPath == <<"/","d","/","r","1","/","m","2",".","c","o","n","s","e","n","s","u","s","r","e","a","d","s","e","t",".","x","m","l">>

(* The documents of the batches *)
BatchDsDocs ==
    { DsDoc(TRUE, Some(Txt(5)), None, Collection(Ctx_m1), None,
            Well(Some("s1"), None, Some(Txt(15000)), None, Some("hifi")),
            None, None, None),
      DsDoc(TRUE, Some(Txt(7)), Some(Txt(9)), Collection(Ctx_m1),
            Some([Name |-> Some("r1")]), None, None, None, None),
      DsDoc(TRUE, None, None, Collection(None), None, None, None, None, None),
      DsDoc(TRUE, Some(Txt(6)), None, None, None, None, None, None, None),
      DsDoc(TRUE, Some(Txt(8)), None, Collection(Ctx_m1), None, None,
            Some(<<Param(Some("MovieLength"), None)>>), None, None) }

BatchStsDocs ==
    { StsDoc(TRUE, Some(Txt(MaxZmws)), Some(Txt(30)), Some(Txt(15000000)),
             Some(<<Txt(8), Txt(20), Txt(4)>>), Some(<<Txt(2), Txt(30)>>), None, <<>>),
      StsDoc(TRUE, None, None, None, None, None, None, <<>>),
      StsDoc(TRUE, Some(Txt(0)), None, Some(Txt(0)),
             Some(<<Txt(1), Txt(0), Txt(2)>>), None, None, <<>>),
      StsDoc(TRUE, Some(Txt(3)), None, Some(Txt(25000000)), None,
             Some(<<Txt(2), Txt(1)>>), None, <<>>),
      StsDoc(FALSE, None, None, None, None, None, None, <<>>) }

(* Paths below base_dir, without the suffix of the kind; two stats files   *)
(* in different directories may carry the same movie name.                 *)
BatchRels == { <<"m","1">>, <<"r","/","m","2">>,
               <<"b","c","1","-","-","b","c","1","/","m","1">> }

BatchStsRels == BatchRels \cup { <<"r","/","m","1">> }

BatchBases == { <<"/","d">> }

FilesOf(base, rels, sfx, docs) ==
    { [path |-> FullPath(base, r \o sfx), doc |-> d] : r \in rels, d \in docs }

(* A directory holds a path once. *)
DistinctPaths(files) ==
    \A i, j \in 1..Len(files) : files[i].path = files[j].path => i = j

--------------------------------------------------------------------------
(* The batch: parse_all_runs *)

NoCall == [raised |-> FALSE, data |-> EmptyDict]

NoArg == [path |-> <<>>, kind |-> "none"]

Init ==
    /\ base_dir \in BatchBases
    /\ \E lc \in 0..MaxFiles :
        \E ls \in 0..(MaxFiles - lc) :
          \E lt \in 0..(MaxFiles - lc - ls) :
            \E c \in [1..lc -> FilesOf(base_dir, BatchRels, SfxConsensus, BatchDsDocs)] :
              \E s \in [1..ls -> FilesOf(base_dir, BatchRels, SfxSubread, BatchDsDocs)] :
                \E t \in [1..lt -> FilesOf(base_dir, BatchStsRels, SfxSts, BatchStsDocs)] :
                  /\ DistinctPaths(c) /\ DistinctPaths(s) /\ DistinctPaths(t)
                  /\ fs = [consensus |-> c, subread |-> s, sts |-> t]
    /\ consensus_files = <<>>
    /\ subread_files = <<>>
    /\ sts_files = <<>>
    /\ run_data = <<>>
    /\ all_data = <<>>
    /\ pc = "find"
    /\ ci = 1 /\ si = 1 /\ ti = 1
    /\ errors = 0
    /\ arg = NoArg
    /\ ret = NoCall

(* consensus_files, subread_files, sts_files = self.find_xml_files() *)
FindXmlFiles ==
    /\ pc = "find"
    /\ consensus_files' = MainFiles(fs.consensus)
    /\ subread_files' = MainFiles(fs.subread)
    /\ sts_files' = MainFiles(fs.sts)
    /\ pc' = "parse"
    /\ UNCHANGED <<base_dir, fs, run_data, all_data, ci, si, ti, errors, arg, ret>>

(* One iteration of the first loop whose try block completes. *)
MergeConsensusFile ==
    /\ pc = "parse"
    /\ ci <= Len(consensus_files)
    /\ LET f == consensus_files[ci]
           r == parse_consensusreadset(f)
           data == TagConsensus(r.data)
       IN  /\ ~r.raised
           /\ run_data' = MergeDataset(run_data, DatasetKey(data, f), data)
    /\ ci' = ci + 1
    /\ UNCHANGED <<base_dir, fs, consensus_files, subread_files, sts_files,
                   all_data, pc, si, ti, errors, arg, ret>>

(* One iteration of the first loop that ends in the except clause. *)
SkipConsensusFile ==
    /\ pc = "parse"
    /\ ci <= Len(consensus_files)
    /\ parse_consensusreadset(consensus_files[ci]).raised
    /\ run_data' = OnParseError(run_data, consensus_files[ci])
    /\ errors' = errors + 1
    /\ ci' = ci + 1
    /\ UNCHANGED <<base_dir, fs, consensus_files, subread_files, sts_files,
                   all_data, pc, si, ti, arg, ret>>

MergeSubreadFile ==
    /\ pc = "parse"
    /\ ci > Len(consensus_files)
    /\ si <= Len(subread_files)
    /\ LET f == subread_files[si]
           r == parse_subreadset(f)
           data == TagSubread(r.data)
       IN  /\ ~r.raised
           /\ run_data' = MergeDataset(run_data, DatasetKey(data, f), data)
    /\ si' = si + 1
    /\ UNCHANGED <<base_dir, fs, consensus_files, subread_files, sts_files,
                   all_data, pc, ci, ti, errors, arg, ret>>

SkipSubreadFile ==
    /\ pc = "parse"
    /\ ci > Len(consensus_files)
    /\ si <= Len(subread_files)
    /\ parse_subreadset(subread_files[si]).raised
    /\ run_data' = OnParseError(run_data, subread_files[si])
    /\ errors' = errors + 1
    /\ si' = si + 1
    /\ UNCHANGED <<base_dir, fs, consensus_files, subread_files, sts_files,
                   all_data, pc, ci, ti, arg, ret>>

MergeStsFile ==
    /\ pc = "parse"
    /\ ci > Len(consensus_files)
    /\ si > Len(subread_files)
    /\ ti <= Len(sts_files)
    /\ LET f == sts_files[ti]
           r == parse_sts_file(f)
       IN  /\ ~r.raised
           /\ run_data' = MergeSts(run_data, StsKey(f), r.data)
    /\ ti' = ti + 1
    /\ UNCHANGED <<base_dir, fs, consensus_files, subread_files, sts_files,
                   all_data, pc, ci, si, errors, arg, ret>>

SkipStsFile ==
    /\ pc = "parse"
    /\ ci > Len(consensus_files)
    /\ si > Len(subread_files)
    /\ ti <= Len(sts_files)
    /\ parse_sts_file(sts_files[ti]).raised
    /\ run_data' = OnParseError(run_data, sts_files[ti])
    /\ errors' = errors + 1
    /\ ti' = ti + 1
    /\ UNCHANGED <<base_dir, fs, consensus_files, subread_files, sts_files,
                   all_data, pc, ci, si, arg, ret>>

(* all_data = list(run_data.values()); return pd.DataFrame(all_data) *)
Assemble ==
    /\ pc = "parse"
    /\ ci > Len(consensus_files)
    /\ si > Len(subread_files)
    /\ ti > Len(sts_files)
    /\ all_data' = [i \in 1..Len(run_data) |-> run_data[i].rec]
    /\ pc' = "done"
    /\ UNCHANGED <<base_dir, fs, consensus_files, subread_files, sts_files,
                   run_data, ci, si, ti, errors, arg, ret>>

Next ==
    \/ FindXmlFiles
    \/ MergeConsensusFile
    \/ SkipConsensusFile
    \/ MergeSubreadFile
    \/ SkipSubreadFile
    \/ MergeStsFile
    \/ SkipStsFile
    \/ Assemble

Spec == Init /\ [][Next]_vars

--------------------------------------------------------------------------
(* Single calls of the extractors, on every document of the bounded sets *)

Idle ==
    /\ base_dir = <<".">>
    /\ fs = [consensus |-> <<>>, subread |-> <<>>, sts |-> <<>>]
    /\ consensus_files = <<>>
    /\ subread_files = <<>>
    /\ sts_files = <<>>
    /\ run_data = <<>>
    /\ all_data = <<>>
    /\ ci = 1 /\ si = 1 /\ ti = 1
    /\ errors = 0

InitSts ==
    /\ Idle
    /\ pc = "call"
    /\ arg \in {[path |-> StsPath, doc |-> d, kind |-> "sts"] : d \in StsDocs}
    /\ ret = NoCall

CallParseSts ==
    /\ pc = "call"
    /\ arg.kind = "sts"
    /\ ret' = parse_sts_file(arg)
    /\ pc' = "returned"
    /\ UNCHANGED <<base_dir, fs, consensus_files, subread_files, sts_files,
                   run_data, all_data, ci, si, ti, errors, arg>>

SpecSts == InitSts /\ [][CallParseSts]_vars

InitDataset ==
    /\ Idle
    /\ pc = "call"
    /\ arg \in {[path |-> DsPath, doc |-> d, kind |-> k] :
                    d \in DsDocs, k \in {"consensus", "subread"}}
    /\ ret = NoCall

CallParseConsensusreadset ==
    /\ pc = "call"
    /\ arg.kind = "consensus"
    /\ ret' = parse_consensusreadset(arg)
    /\ pc' = "returned"
    /\ UNCHANGED <<base_dir, fs, consensus_files, subread_files, sts_files,
                   run_data, all_data, ci, si, ti, errors, arg>>

CallParseSubreadset ==
    /\ pc = "call"
    /\ arg.kind = "subread"
    /\ ret' = parse_subreadset(arg)
    /\ pc' = "returned"
    /\ UNCHANGED <<base_dir, fs, consensus_files, subread_files, sts_files,
                   run_data, all_data, ci, si, ti, errors, arg>>

NextDataset == CallParseConsensusreadset \/ CallParseSubreadset

SpecDataset == InitDataset /\ [][NextDataset]_vars

--------------------------------------------------------------------------
(* find_xml_files alone, on bounded directory trees *)

MaxFound == 2        \* files of each kind rglob finds below base_dir

FindBases == { <<".">>, <<"/">>, <<"/","d">>, <<"b","c","9","-","-","b","c","9">>,
               <<"/","b","c","d","/","x","-","-","b","c">> }

FindDirs == { <<>>, <<"r","/">>,
              <<"b","c","1","-","-","b","c","1","/">>,
              <<"r","/","b","c","2","0","-","-","b","c","3","/","s","/">>,
              <<"b","c","x","/","y","-","-","b","c","/">>,
              <<"a","-","-","b","c","/">> }

FindNames == { <<"m","1">>,
               <<"m","1",".","b","c","1","-","-","b","c","1">>,
               <<"m","1",".","u","n","b","a","r","c","o","d","e","d">>,
               <<"U","n","B","a","r","c","o","d","e","d">>,
               <<"m",".","b","c",".","x","-","-","b","c">>,
               <<"b","c","1","-","-","b","c","2">> }

FindRels == { d \o n : d \in FindDirs, n \in FindNames }

EmptyDsDoc == DsDoc(TRUE, None, None, None, None, None, None, None, None)

EmptyStsDoc == StsDoc(TRUE, None, None, None, None, None, None, <<>>)

Found(base, rels, sfx, doc) ==
    [i \in 1..Len(rels) |-> [path |-> FullPath(base, rels[i] \o sfx), doc |-> doc]]

InitFind ==
    /\ base_dir \in FindBases
    /\ \E n \in 0..MaxFound :
        \E rels \in [1..n -> FindRels] :
          /\ \A i, j \in 1..n : rels[i] = rels[j] => i = j
          /\ fs = [consensus |-> Found(base_dir, rels, SfxConsensus, EmptyDsDoc),
                   subread |-> Found(base_dir, rels, SfxSubread, EmptyDsDoc),
                   sts |-> Found(base_dir, rels, SfxSts, EmptyStsDoc)]
    /\ consensus_files = <<>>
    /\ subread_files = <<>>
    /\ sts_files = <<>>
    /\ run_data = <<>>
    /\ all_data = <<>>
    /\ pc = "find"
    /\ ci = 1 /\ si = 1 /\ ti = 1
    /\ errors = 0
    /\ arg = NoArg
    /\ ret = NoCall

SpecFind == InitFind /\ [][FindXmlFiles]_vars

--------------------------------------------------------------------------
(* What the batch has merged so far, read off the file lists: the files    *)
(* the three loops have passed whose extraction returned, in processing    *)
(* order, each with the dict and the run key the loop body computes.       *)

ConsensusContribution(f) ==
    LET data == TagConsensus(parse_consensusreadset(f).data)
    IN  [kind |-> "consensus", path |-> f.path, key |-> DatasetKey(data, f),
         data |-> data]

SubreadContribution(f) ==
    LET data == TagSubread(parse_subreadset(f).data)
    IN  [kind |-> "subread", path |-> f.path, key |-> DatasetKey(data, f),
         data |-> data]

StsContribution(f) ==
    [kind |-> "sts", path |-> f.path, key |-> StsKey(f),
     data |-> parse_sts_file(f).data]

Passed(files, i) == SubSeq(files, 1, i - 1)

MapSeq(s, Op(_)) == [i \in 1..Len(s) |-> Op(s[i])]

Merged ==
    MapSeq(SelectSeq(Passed(consensus_files, ci),
                     LAMBDA f : ~parse_consensusreadset(f).raised),
           ConsensusContribution)
    \o MapSeq(SelectSeq(Passed(subread_files, si),
                        LAMBDA f : ~parse_subreadset(f).raised),
              SubreadContribution)
    \o MapSeq(SelectSeq(Passed(sts_files, ti),
                        LAMBDA f : ~parse_sts_file(f).raised),
              StsContribution)

(* The elements of s in the order of their first occurrences *)
RECURSIVE FirstOccurrences(_)
FirstOccurrences(s) ==
    IF s = <<>> THEN <<>>
    ELSE LET h == FirstOccurrences(SubSeq(s, 1, Len(s) - 1))
         IN  IF s[Len(s)] \in Range(h) THEN h ELSE Append(h, s[Len(s)])

HasVal(rec, fld) == fld \in DOMAIN rec /\ IsSome(rec[fld])

--------------------------------------------------------------------------
(* C1: at every point of the batch the run table holds exactly one record  *)
(* per distinct run key among the files extracted so far, in the order in  *)
(* which the keys were first inserted; the rows returned at the end are    *)
(* the records of that table, one per key, in the same order.              *)
C1_OneRecordPerKeyInInsertionOrder ==
    /\ Keys(run_data) = FirstOccurrences(MapSeq(Merged, LAMBDA m : m.key))
    /\ \A i, j \in 1..Len(run_data) : run_data[i].key = run_data[j].key => i = j
    /\ pc = "done" =>
        /\ Len(all_data) = Cardinality({Merged[i].key : i \in 1..Len(Merged)})
        /\ \A i \in 1..Len(all_data) : all_data[i] = run_data[i].rec

(* Three files were merged into two records, the first key being updated   *)
(* after the second was inserted.                                          *)
C1_Witness ==
    /\ pc = "done"
    /\ Len(Merged) = 3
    /\ Len(all_data) = 2
    /\ Merged[1].key = Merged[3].key
    /\ Merged[1].key # Merged[2].key

--------------------------------------------------------------------------
(* The contributions merged so far under run key k, in processing order:   *)
(* consensus files, then subread files, then stats files.                  *)
MergedUnder(k) == SelectSeq(Merged, LAMBDA m : m.key = k)

(* The last of the contributions ms that sets field fld, 0 when none does. *)
LastSetting(ms, fld) ==
    IF \E i \in 1..Len(ms) : fld \in DOMAIN ms[i].data
    THEN CHOOSE i \in 1..Len(ms) :
            /\ fld \in DOMAIN ms[i].data
            /\ \A j \in (i + 1)..Len(ms) : fld \notin DOMAIN ms[j].data
    ELSE 0

FieldsSet(ms) == UNION {DOMAIN ms[i].data : i \in 1..Len(ms)}

(* C2: merging is last-write-wins per field in the processing order        *)
(* consensus, subread, stats: every field of a record holds the value of   *)
(* the last contribution under its key that sets the field, a record has   *)
(* exactly the fields some contribution set, and a key with a consensus    *)
(* and a subread contribution has run_type 'CLR'.                          *)
C2_LastWriteWinsPerField ==
    \A n \in 1..Len(run_data) :
        LET rec == run_data[n].rec
            ms == MergedUnder(run_data[n].key)
        IN  /\ DOMAIN rec = FieldsSet(ms)
            /\ \A fld \in DOMAIN rec : rec[fld] = ms[LastSetting(ms, fld)].data[fld]
            /\ (/\ \E i \in 1..Len(ms) : ms[i].kind = "consensus"
                /\ \E i \in 1..Len(ms) : ms[i].kind = "subread")
               => rec["run_type"] = Some("CLR")
            /\ (/\ \E i \in 1..Len(ms) : ms[i].kind = "consensus"
                /\ \A i \in 1..Len(ms) : ms[i].kind # "subread")
               => rec["run_type"] = Some("CCS/HiFi")

(* A consensus, a subread and a stats file were merged under one key: the  *)
(* subread file overwrote total_length and run_type, and sample_name, set  *)
(* by the consensus file alone, was kept beside the stats fields.          *)
C2_Witness ==
    /\ pc = "done"
    /\ Len(run_data) = 1
    /\ Len(Merged) = 3
    /\ Merged[1].kind = "consensus" /\ Merged[2].kind = "subread"
    /\ Merged[3].kind = "sts"
    /\ Merged[1].data["total_length"] # Merged[2].data["total_length"]
    /\ "sample_name" \in DOMAIN Merged[1].data
    /\ "sample_name" \notin DOMAIN Merged[2].data
    /\ run_data[1].rec["total_length"] = Merged[2].data["total_length"]
    /\ run_data[1].rec["sample_name"] = Merged[1].data["sample_name"]
    /\ HasVal(run_data[1].rec, "yield_gb")

--------------------------------------------------------------------------
(* The key the documentation gives a dataset file: its Context attribute   *)
(* when the document has one, else the base name without extension.        *)
DocumentedDatasetKey(f) ==
    IF /\ IsSome(f.doc.CollectionMetadata)
       /\ IsSome(Val(f.doc.CollectionMetadata).Context)
    THEN Val(f.doc.CollectionMetadata).Context
    ELSE Some(PathStem(f.path))

DatasetFilesMerged ==
    SelectSeq(Passed(consensus_files, ci), LAMBDA f : ~parse_consensusreadset(f).raised)
    \o SelectSeq(Passed(subread_files, si), LAMBDA f : ~parse_subreadset(f).raised)

(* C3: every consensus or subread file is merged under its context         *)
(* identifier when the document provides one and under the file's base     *)
(* name without extension otherwise, and no record is keyed by None.       *)
C3_KeyIsContextOrStem ==
    /\ \A i \in 1..Len(DatasetFilesMerged) :
          HasKey(run_data, DocumentedDatasetKey(DatasetFilesMerged[i]))
    /\ ~HasKey(run_data, None)

--------------------------------------------------------------------------
(* The first dot-delimited segment of a path's base name *)
FirstDotSegment(path) ==
    LET name == PathName(path)
    IN  IF \E i \in 1..Len(name) : name[i] = "."
        THEN SubSeq(name, 1, (CHOOSE i \in 1..Len(name) :
                                name[i] = "." /\ \A j \in 1..(i - 1) : name[j] # ".") - 1)
        ELSE name

(* C4: a step that merges a stats file uses the first dot-delimited        *)
(* segment of its base name as run key; when the key is in the table the   *)
(* record gets the stats fields and keeps its other fields, and no other   *)
(* record changes; otherwise a record holding only the stats fields, with  *)
(* no run_type, is appended under that key.                                *)
C4_StatsKeyAndMerge ==
    [][ (ti' = ti + 1 /\ errors' = errors) =>
            LET f == sts_files[ti]
                k == Some(FirstDotSegment(f.path))
                d == parse_sts_file(f).data
            IN  IF HasKey(run_data, k)
                THEN /\ Keys(run_data') = Keys(run_data)
                     /\ \A n \in 1..Len(run_data) :
                          IF run_data[n].key = k
                          THEN /\ DOMAIN run_data'[n].rec
                                    = DOMAIN run_data[n].rec \cup DOMAIN d
                               /\ \A fld \in DOMAIN d :
                                    run_data'[n].rec[fld] = d[fld]
                               /\ \A fld \in DOMAIN run_data[n].rec \ DOMAIN d :
                                    run_data'[n].rec[fld] = run_data[n].rec[fld]
                          ELSE run_data'[n] = run_data[n]
                ELSE /\ run_data' = Append(run_data, [key |-> k, rec |-> d])
                     /\ "run_type" \notin DOMAIN d
                     /\ "sts_file" \in DOMAIN d ]_vars

(* One row carries the fields of a dataset whose context is the first      *)
(* segment of a stats file's name together with the stats fields, and a    *)
(* second stats file, matching no dataset, has a row without run_type.     *)
C4_Witness ==
    /\ pc = "done"
    /\ Len(all_data) = 2
    /\ HasVal(all_data[1], "run_type") /\ HasVal(all_data[1], "context")
    /\ HasVal(all_data[1], "sts_file") /\ HasVal(all_data[1], "p1_percent")
    /\ all_data[1]["context"] = Some(FirstDotSegment(Val(all_data[1]["sts_file"])))
    /\ "run_type" \notin DOMAIN all_data[2]
    /\ HasVal(all_data[2], "sts_file")

--------------------------------------------------------------------------
PercentFields == {"p0_percent", "p1_percent", "p2_percent", "productivity_percent"}

(* C5: when NumSequencingZmws is absent or zero, the record parse_sts_file *)
(* returns has none of the keys p0_percent, p1_percent, p2_percent and     *)
(* productivity_percent, whatever bins the document holds.                 *)
C5_NoPercentWithoutZmws ==
    (/\ pc = "returned"
     /\ arg.kind = "sts"
     /\ ~ret.raised
     /\ \/ arg.doc.NumSequencingZmws = None
        \/ Val(arg.doc.NumSequencingZmws).v = 0)
    => PercentFields \cap DOMAIN ret.data = {}

(* A document with a zero ZMW count, three loading bins and two            *)
(* productivity bins was extracted: the counts are there.                  *)
C5_Witness ==
    /\ pc = "returned"
    /\ arg.kind = "sts"
    /\ ~ret.raised
    /\ arg.doc.NumSequencingZmws = Some(Txt(0))
    /\ HasVal(ret.data, "p1_single")
    /\ HasVal(ret.data, "productive_zmws")
    /\ ret.data["num_sequencing_zmws"] = Some(0)

--------------------------------------------------------------------------
(* The derived fields of a record against their inputs in that record *)
PercentInputs ==
    ("p0_percent" :> "p0_empty") @@ ("p1_percent" :> "p1_single")
    @@ ("p2_percent" :> "p2_multi") @@ ("productivity_percent" :> "productive_zmws")

DerivedIffInputs(rec) ==
    /\ HasVal(rec, "yield_gb")
          <=> (HasVal(rec, "total_bases") /\ Val(rec["total_bases"]) # 0)
    /\ \A p \in PercentFields :
          HasVal(rec, p)
             <=> /\ HasVal(rec, PercentInputs[p])
                 /\ HasVal(rec, "num_sequencing_zmws")
                 /\ Val(rec["num_sequencing_zmws"]) # 0

(* The number of stats files merged so far under run key k *)
StatsMergedUnder(k) ==
    Len(SelectSeq(MergedUnder(k), LAMBDA m : m.kind = "sts"))

(* C6, as claimed: in every record of the run table, at every point of the *)
(* batch, each derived field has a value if and only if its inputs in that *)
(* record have values and the denominator is non-zero (total_bases         *)
(* non-zero for yield_gb).                                                 *)
C6_DerivedIffInputsInEveryRecord ==
    \A n \in 1..Len(run_data) : DerivedIffInputs(run_data[n].rec)

(* C6, amended: the equivalence holds in every record into which at most   *)
(* one stats file has been merged.                                         *)
C6_DerivedIffInputsOneStatsFile ==
    \A n \in 1..Len(run_data) :
        StatsMergedUnder(run_data[n].key) <= 1 => DerivedIffInputs(run_data[n].rec)

(* One stats file with a ZMW count, loading bins and a yield was merged    *)
(* into the record of a dataset, and one with a zero base count into       *)
(* another record.                                                         *)
C6_Witness ==
    /\ pc = "done"
    /\ \E n \in 1..Len(run_data) :
          /\ StatsMergedUnder(run_data[n].key) = 1
          /\ HasVal(run_data[n].rec, "run_type")
          /\ HasVal(run_data[n].rec, "p0_percent")
          /\ HasVal(run_data[n].rec, "productivity_percent")
          /\ HasVal(run_data[n].rec, "yield_gb")
    /\ \E n \in 1..Len(run_data) :
          /\ StatsMergedUnder(run_data[n].key) = 1
          /\ run_data[n].rec["total_bases"] = Some(0)
          /\ HasVal(run_data[n].rec, "p0_empty")

--------------------------------------------------------------------------
(* C7: with a total base count B > 0, yield_gb is a number of hundredths   *)
(* of a gigabase nearest to B / 10^9 (B rounded to the nearest 10^7        *)
(* bases); with B absent or zero, yield_gb has no value.                   *)
C7_YieldIsNearestHundredth ==
    (pc = "returned" /\ arg.kind = "sts" /\ ~ret.raised) =>
        LET B == ret.data["total_bases"]
            y == ret.data["yield_gb"]
        IN  /\ B = IntOrNone(arg.doc.SequencingUmy)
            /\ IF IsSome(B) /\ Val(B) > 0
               THEN /\ IsSome(y)
                    /\ Val(y) * 10000000 - Val(B) <= 5000000
                    /\ Val(B) - Val(y) * 10000000 <= 5000000
               ELSE y = None

(* B = 15 000 000 lies half way between 0.01 and 0.02 Gb: the double       *)
(* nearest to 0.015 is below it, and yield_gb is 0.01.                     *)
C7_Witness ==
    /\ pc = "returned"
    /\ arg.kind = "sts"
    /\ ~ret.raised
    /\ ret.data["total_bases"] = Some(15000000)
    /\ ret.data["yield_gb"] = Some(1)

--------------------------------------------------------------------------
Digits == {"0","1","2","3","4","5","6","7","8","9"}

AllDigits(s) == s # <<>> /\ \A i \in 1..Len(s) : s[i] \in Digits

(* bc<digits>--bc<digits> *)
IsBarcodeSegment(seg) ==
    \E k \in 3..(Len(seg) - 5) :
        /\ SubSeq(seg, 1, 2) = <<"b","c">>
        /\ AllDigits(SubSeq(seg, 3, k))
        /\ SubSeq(seg, k + 1, k + 4) = <<"-","-","b","c">>
        /\ AllDigits(SubSeq(seg, k + 5, Len(seg)))

(* Some "/"-delimited segment of the path is a barcode segment. *)
HasBarcodeSegment(path) ==
    \E i \in 1..Len(path) : \E j \in i..Len(path) :
        /\ i = 1 \/ path[i - 1] = "/"
        /\ j = Len(path) \/ path[j + 1] = "/"
        /\ \A n \in i..j : path[n] # "/"
        /\ IsBarcodeSegment(SubSeq(path, i, j))

IsUnbarcodedName(path) == Contains(Lower(PathName(path)), <<"u","n","b","a","r","c","o","d","e","d">>)

KindLists ==
    << <<fs.consensus, consensus_files>>, <<fs.subread, subread_files>>,
       <<fs.sts, sts_files>> >>

(* C8: find_xml_files returns no path that has a bc<digits>--bc<digits>    *)
(* segment and none whose file name contains 'unbarcoded' in any letter    *)
(* case, in any of its three lists; a tree whose files all live under such *)
(* a directory yields three empty lists.                                   *)
C8_BarcodeAndUnbarcodedExcluded ==
    pc # "find" =>
        /\ \A n \in 1..3 : \A i \in 1..Len(KindLists[n][2]) :
              /\ ~HasBarcodeSegment(KindLists[n][2][i].path)
              /\ ~IsUnbarcodedName(KindLists[n][2][i].path)
        /\ (\A n \in 1..3 : \A i \in 1..Len(KindLists[n][1]) :
                HasBarcodeSegment(KindLists[n][1][i].path))
           => (consensus_files = <<>> /\ subread_files = <<>> /\ sts_files = <<>>)

--------------------------------------------------------------------------
(* The table of a batch from which the files whose extraction raises have  *)
(* been removed beforehand: nothing but merges.                            *)
RECURSIVE MergeAll(_, _)
MergeAll(rd, ms) ==
    IF ms = <<>> THEN rd
    ELSE LET m == ms[1]
         IN  MergeAll(IF m.kind = "sts" THEN MergeSts(rd, m.key, m.data)
                      ELSE MergeDataset(rd, m.key, m.data),
                      SubSeq(ms, 2, Len(ms)))

Raising(files, Parse(_)) == SelectSeq(files, LAMBDA f : Parse(f).raised)

(* C9: a file whose extraction raises is skipped.  At every point the run  *)
(* table is the table of the files passed so far with the raising ones     *)
(* removed, so a failing file leaves no field and no record behind; the    *)
(* batch ends having passed every file of every kind, with one error       *)
(* reported per raising file.                                              *)
C9_FailingFilesAreSkipped ==
    /\ run_data = MergeAll(<<>>, Merged)
    /\ errors = Len(Raising(Passed(consensus_files, ci), parse_consensusreadset))
                + Len(Raising(Passed(subread_files, si), parse_subreadset))
                + Len(Raising(Passed(sts_files, ti), parse_sts_file))
    /\ pc = "done" =>
        /\ ci = Len(consensus_files) + 1
        /\ si = Len(subread_files) + 1
        /\ ti = Len(sts_files) + 1
        /\ all_data = [i \in 1..Len(run_data) |-> run_data[i].rec]

(* The first consensus file raised, and the subread and stats files after  *)
(* it were merged.                                                         *)
C9_Witness ==
    /\ pc = "done"
    /\ errors = 1
    /\ Len(consensus_files) = 1
    /\ parse_consensusreadset(consensus_files[1]).raised
    /\ Len(Merged) = 2
    /\ Merged[1].kind = "subread" /\ Merged[2].kind = "sts"
    /\ Len(run_data) >= 1

--------------------------------------------------------------------------
(* A dataset document in which things are at most absent: it is           *)
(* well-formed and every text that is there is a number.                   *)
OkOrAbsent(o) == o = None \/ Val(o).ok

MerelyAbsent(doc) ==
    /\ doc.wf
    /\ OkOrAbsent(doc.TotalLength)
    /\ OkOrAbsent(doc.NumRecords)
    /\ IsSome(doc.WellSample) =>
          /\ OkOrAbsent(Val(doc.WellSample).InsertSize)
          /\ OkOrAbsent(Val(doc.WellSample).OnPlateLoadingConcentration)
    /\ IsSome(doc.Automation) =>
          \A i \in 1..Len(Val(doc.Automation)) :
              OkOrAbsent(Val(doc.Automation)[i].SimpleValue)

(* C10: on a well-formed dataset document in which optional elements and   *)
(* attributes are at most absent, the extractor does not raise, fields     *)
(* whose source is absent have no value and the fields whose source is     *)
(* present are populated.                                                  *)
C10_AbsenceNeverRaises ==
    (pc = "returned" /\ arg.kind \in {"consensus", "subread"}
       /\ MerelyAbsent(arg.doc)) =>
        /\ ~ret.raised
        /\ HasVal(ret.data, "xml_file")
        /\ HasVal(ret.data, "total_length") <=> IsSome(arg.doc.TotalLength)
        /\ HasVal(ret.data, "context")
              <=> /\ IsSome(arg.doc.CollectionMetadata)
                  /\ IsSome(Val(arg.doc.CollectionMetadata).Context)
        /\ HasVal(ret.data, "sample_name")
              <=> /\ IsSome(arg.doc.WellSample)
                  /\ IsSome(Val(arg.doc.WellSample).Name)
        /\ HasVal(ret.data, "insert_size")
              <=> /\ IsSome(arg.doc.WellSample)
                  /\ IsSome(Val(arg.doc.WellSample).InsertSize)
        /\ HasVal(ret.data, "binding_kit") <=> IsSome(arg.doc.BindingKit)
        /\ HasVal(ret.data, "cell_type") <=> IsSome(arg.doc.CellPac)

--------------------------------------------------------------------------
(* The bijections of 1..n onto itself: the orders in which n contributions *)
(* can be merged.                                                          *)
Perms(n) == {p \in [1..n -> 1..n] : \A i, j \in 1..n : p[i] = p[j] => i = j}

Permuted(ms, p) == [i \in 1..Len(ms) |-> ms[p[i]]]

PairwiseDisjoint(ms) ==
    \A i, j \in 1..Len(ms) :
        i # j => DOMAIN ms[i].data \cap DOMAIN ms[j].data = {}

SetBy(ms, fld) == {i \in 1..Len(ms) : fld \in DOMAIN ms[i].data}

(* C11: the contributions merged under a run key in the order consensus,   *)
(* subread, stats give, when no two of them set the same field, the same   *)
(* record as the same contributions merged in any other order; and in      *)
(* every record a field that only one contribution sets has the same value *)
(* in every merge order, so the order matters only for a field that two    *)
(* contributions set.                                                      *)
C11_DisjointMergeIsOrderIndependent ==
    \A n \in 1..Len(run_data) :
        LET k == run_data[n].key
            rec == run_data[n].rec
            ms == MergedUnder(k)
        IN  \A p \in Perms(Len(ms)) :
                LET other == Get(MergeAll(<<>>, Permuted(ms, p)), k)
                IN  /\ PairwiseDisjoint(ms) => other = rec
                    /\ \A fld \in DOMAIN rec :
                          Cardinality(SetBy(ms, fld)) = 1
                            => (fld \in DOMAIN other /\ other[fld] = rec[fld])

(* A dataset file and a stats file that set no common field were merged    *)
(* under one key, and the record holds values from both.                   *)
C11_Witness ==
    /\ pc = "done"
    /\ \E n \in 1..Len(run_data) :
          LET ms == MergedUnder(run_data[n].key)
          IN  /\ Len(ms) = 2
              /\ ms[1].kind = "consensus" /\ ms[2].kind = "sts"
              /\ PairwiseDisjoint(ms)
              /\ HasVal(run_data[n].rec, "sample_name")
              /\ HasVal(run_data[n].rec, "yield_gb")

--------------------------------------------------------------------------
(* The file name contains .bc<digits>--bc<digits>. between two dots. *)
HasBarcodeInName(path) ==
    LET name == PathName(path)
    IN  \E i \in 1..Len(name) : \E j \in (i + 1)..(Len(name) - 1) :
            /\ name[i] = "."
            /\ name[j + 1] = "."
            /\ IsBarcodeSegment(SubSeq(name, i + 1, j))

MatchesNoExclusionRule(path) ==
    /\ ~HasBarcodeSegment(path)
    /\ ~HasBarcodeInName(path)
    /\ ~IsUnbarcodedName(path)

(* C12: find_xml_files returns, in the list of its kind, every discovered  *)
(* file whose path has no bc<digits>--bc<digits> segment and whose file    *)
(* name has no .bc<digits>--bc<digits>. pattern and no 'unbarcoded' in it, *)
(* wherever else '/bc', '.bc' and '--bc' occur in the path.                *)
C12_UnexcludedFilesAreKept ==
    pc # "find" =>
        \A n \in 1..3 : \A i \in 1..Len(KindLists[n][1]) :
            MatchesNoExclusionRule(KindLists[n][1][i].path)
                => KindLists[n][1][i] \in Range(KindLists[n][2])

--------------------------------------------------------------------------
(* C13: overwrite is by presence only.  A field for which some file merged *)
(* under a run key supplied a value has a value in the record of that key  *)
(* from then on: a later file of the key whose document lacks the field's  *)
(* source neither removes the value nor replaces it by None.               *)
C13_ValueOnceStoredIsKept ==
    \A n \in 1..Len(run_data) :
        LET ms == MergedUnder(run_data[n].key)
        IN  \A fld \in FieldsSet(ms) :
                (\E i \in 1..Len(ms) : HasVal(ms[i].data, fld))
                    => HasVal(run_data[n].rec, fld)

==========================================================================
